---- MODULE Spec2Model ----
(***************************************************************************)
(* Model of django-advanced-filters (pacotole fork):                       *)
(*   advanced_filters/admin.py  - AdvancedFilterAdmin.generate_query,      *)
(*                                 save_formset, AdvancedListFilters        *)
(*   advanced_filters/models.py - AdvancedFilter (query property,          *)
(*                                 list_fields, initialize_form,           *)
(*                                 _parse_query_dict), Condition            *)
(*                                                                         *)
(* Strings that the code splits or joins on "__" (field paths, lookup      *)
(* keys) are sequences of their "__"-separated segments, so                *)
(* "author__name__gt" is <<"author", "name", "gt">>.                        *)
(* Python values are records [t, s]: None, True, False, a text or a list.  *)
(* Q objects follow django.db.models.Q / django.utils.tree.Node of the     *)
(* Django release the sources import from (1.7/1.8: get_model,             *)
(* django.contrib.admin.util).                                             *)
(***************************************************************************)
EXTENDS Integers, Sequences, FiniteSets, TLC

VARIABLES
    phase,       \* "idle" | "saved" | "populated" | "listed"
    b64_query,   \* AdvancedFilter.b64_query, the stored token
    conditions,  \* the Condition instances handed to save_formset
    gq,          \* outcome of generate_query in save_formset
    set_err,     \* error raised by the query setter ("" when none)
    model,       \* AdvancedFilter.model, "app.Model" or None
    model_admin, \* what admin.site._registry holds for that model
    filter_fields, \* formset_params['filter_fields'] of _create_formsets
    initials,    \* formset_params['initial'] of _create_formsets
    form_err,    \* error raised by _create_formsets ("" when none)
    afilter,     \* the _afilter request parameter seen by queryset()
    listing,     \* what queryset() returned
    list_err     \* error raised by queryset() ("" when none)

vars == <<phase, b64_query, conditions, gq, set_err, model, model_admin,
          filter_fields, initials, form_err, afilter, listing, list_err>>

----------------------------------------------------------------------------
(* Bounds of the model *)

\* longest formset drawn over the structural row alphabet
MaxLen == 3

\* longest formset of maximum-length values (storage budget cases)
MaxLongRows == 6

\* storage budget of the token: b64_query = CharField(max_length=2048)
Budget == 2048

----------------------------------------------------------------------------
(* Python values *)

VNone == [t |-> "none", s |-> ""]

VTrue == [t |-> "bool", s |-> "true"]

VFalse == [t |-> "bool", s |-> "false"]

Str(s) == [t |-> "str", s |-> s]

\* a two element list, the value the range branch of _parse_query_dict expects
VList == [t |-> "list", s |-> "1577836800,1580515200"]

X15 == "xxxxxxxxxxxxxxx"

X60 == X15 \o X15 \o X15 \o X15

\* a text of 255 characters: Condition.value = CharField(max_length=255)
X255 == X60 \o X60 \o X60 \o X60 \o X15

----------------------------------------------------------------------------
(* Condition.OPERATORS *)

OPERATORS ==
    << "iexact", "icontains", "in", "gt", "gte", "lt", "lte",
       "istartswith", "iendswith", "range", "isnull", "istrue", "isfalse" >>

OperatorKeys == { OPERATORS[i] : i \in DOMAIN OPERATORS }

\* the pseudo field of AdvancedFilter.FIELD_CHOICES
OR_FIELD == <<"_OR">>

----------------------------------------------------------------------------
(* django.db.models.Q as the sources use it *)

\* Q()
QEmpty == [kind |-> "Q", connector |-> "AND", negated |-> FALSE, children |-> <<>>]

\* the (key, value) tuple child made from one keyword argument
Leaf(key, value) == [kind |-> "leaf", key |-> key, value |-> value]

\* Q(**query_dict) for a dict of one entry
QKw(d) == [QEmpty EXCEPT !.children = <<d>>]

\* bool(q): a Q without children is falsy
QBool(q) == Len(q.children) > 0

\* tree.Node.add(data, conn_type).  "if data in self.children" compares
\* with ==: a (key, value) tuple equals a child of the same value, while Node
\* defines no __eq__, so a node equals only itself.  Q._combine and
\* Q.__invert__ add nodes to an object they have just created, and the
\* sources hand them operands built anew, so a node passed here is a
\* different object from every child.  Then: squash data into self when it
\* is a non-negated node with the same connector or a single child, else
\* append.
NodeAdd(self, data, conn) ==
    IF data.kind = "leaf" /\ \E i \in DOMAIN self.children : self.children[i] = data
    THEN self
    ELSE IF self.connector = conn
    THEN IF data.kind = "Q" /\ ~data.negated
            /\ (data.connector = conn \/ Len(data.children) = 1)
         THEN [self EXCEPT !.children = @ \o data.children]
         ELSE [self EXCEPT !.children = Append(@, data)]
    ELSE [self EXCEPT !.connector = conn, !.children = <<self, data>>]

\* Q._combine(other, conn)
QCombine(a, b, conn) ==
    NodeAdd(NodeAdd([QEmpty EXCEPT !.connector = conn], a, conn), b, conn)

\* a & b
QAnd(a, b) == QCombine(a, b, "AND")

\* ~a
QInvert(a) == [NodeAdd(QEmpty, a, "AND") EXCEPT !.negated = ~@]

----------------------------------------------------------------------------
(* Condition *)

Row(field, operator, value, negate, delete) ==
    [field |-> field, operator |-> operator, value |-> value,
     negate |-> negate, delete |-> delete]

\* Condition.build_query_dict: the single (key, value) entry of the dict
build_query_dict(c) ==
    IF c.operator = "istrue" THEN Leaf(c.field, VTrue)
    ELSE IF c.operator = "isfalse" THEN Leaf(c.field, VFalse)
    ELSE LET key == Append(c.field, c.operator)
         IN IF c.operator = "isnull" THEN Leaf(key, VTrue)
            ELSE Leaf(key, c.value)

\* Condition.make_query
make_query(c) ==
    IF c.negate
    THEN QAnd(QEmpty, QInvert(QKw(build_query_dict(c))))
    ELSE QAnd(QEmpty, QKw(build_query_dict(c)))

----------------------------------------------------------------------------
(* AdvancedFilterAdmin.generate_query *)

\* Python's None where a Q is expected
PyNone == [kind |-> "None"]

\* the locals of generate_query before the loop
LoopInit == [query |-> QEmpty, ORed |-> <<>>]

\* LoopStep without the test of the delete flag
LoopStep_IgnoreDelete(st, condition) ==
    IF condition.field = OR_FIELD
    THEN [query |-> QEmpty, ORed |-> Append(st.ORed, st.query)]
    ELSE [st EXCEPT !.query = QAnd(st.query, make_query(condition))]

\* one iteration of "for condition in conditions"
LoopStep(st, condition) ==
    IF ~condition.delete
    THEN IF condition.field = OR_FIELD
         THEN [query |-> QEmpty, ORed |-> Append(st.ORed, st.query)]
         ELSE [st EXCEPT !.query = QAnd(st.query, make_query(condition))]
    ELSE st

RECURSIVE Loop(_, _)
\* the whole for loop, from locals st over the remaining conditions
Loop(st, conds) ==
    IF conds = <<>> THEN st ELSE Loop(LoopStep(st, Head(conds)), Tail(conds))

\* "if ORed:" after the loop.  admin.py imports neither the operator module
\* nor anything named operator, so evaluating operator.or_ raises NameError
\* as soon as ORed is not empty.
ReduceORed(st) ==
    IF st.ORed # <<>>
    THEN LET collected == IF QBool(st.query) THEN Append(st.ORed, st.query)
                          ELSE st.ORed
         IN [ok |-> FALSE, err |-> "NameError", query |-> PyNone, ORed |-> collected]
    ELSE [ok |-> TRUE, err |-> "", query |-> st.query, ORed |-> st.ORed]

generate_query(conds) == ReduceORed(Loop(LoopInit, conds))

----------------------------------------------------------------------------
(* QSerializer(base64=True) of advanced_filters/q_serializer.py: the tree   *)
(* codec.  A token is the sequence of the symbols of the JSON text that is  *)
(* base-64 encoded: an opening of a node with its connector and negated     *)
(* flag, a (key, value) pair, a closing.                                    *)

Open(connector, negated) == [s |-> "{", connector |-> connector, negated |-> negated]

Close == [s |-> "}"]

Pair(leaf) == [s |-> "pair", key |-> leaf.key, value |-> leaf.value]

\* b64_query of a filter that was never given a query
EmptyToken == <<>>

RECURSIVE Serialize(_)
\* the symbols of one node, children in order
Serialize(q) ==
    LET RECURSIVE Kids(_)
        Kids(cs) ==
            IF cs = <<>> THEN <<>>
            ELSE (IF Head(cs).kind = "leaf" THEN <<Pair(Head(cs))>>
                  ELSE Serialize(Head(cs))) \o Kids(Tail(cs))
    IN <<Open(q.connector, q.negated)>> \o Kids(q.children) \o <<Close>>

RECURSIVE KeyLen(_)
\* characters of a key once its segments are joined by "__"
KeyLen(key) ==
    IF key = <<>> THEN 0
    ELSE Len(Head(key)) + (IF Len(key) > 1 THEN 2 + KeyLen(Tail(key)) ELSE 0)

\* characters of a value in the JSON text
ValueLen(v) ==
    IF v.t = "none" THEN Len("null")
    ELSE IF v.t = "bool" THEN Len(v.s)
    ELSE Len(v.s) + 2

\* characters one symbol adds to the JSON text, at position i of the token
SymLen(tok, i) ==
    LET y == tok[i]
        sep == IF i > 1 /\ y.s \in {"{", "pair"} /\ tok[i - 1].s # "{" THEN 2 ELSE 0
    IN IF y.s = "{"
       THEN sep + Len("{'connector': '', 'negated': , 'children': []}")
                + Len(y.connector) + (IF y.negated THEN Len("true") ELSE Len("false"))
       ELSE IF y.s = "pair"
       THEN sep + Len("['', ]") + KeyLen(y.key) + ValueLen(y.value)
       ELSE IF y.s = "}" THEN 0
       ELSE Len(y.s)

RECURSIVE JsonLen(_, _)
\* characters of the JSON text of the first n symbols
JsonLen(tok, n) == IF n = 0 THEN 0 ELSE JsonLen(tok, n - 1) + SymLen(tok, n)

\* characters of the base-64 text of n characters
Base64Len(n) == 4 * ((n + 2) \div 3)

\* characters of the token as stored in b64_query
TokenLen(tok) == Base64Len(JsonLen(tok, Len(tok)))

\* QSerializer.dumps: the outcomes the call may have.  The token of the
\* tree is always one.  For a token longer than the column that stores it,
\* the specification speaks of a BudgetExceededError, while models.py, the
\* only caller, holds no length check and nothing in it shows that dumps
\* has one: the refusal is a second possible outcome, not a certain one.
dumps(q) ==
    LET tok == Serialize(q)
    IN { [ok |-> TRUE, err |-> "", token |-> tok] }
       \cup (IF TokenLen(tok) > Budget
             THEN { [ok |-> FALSE, err |-> "BudgetExceededError", token |-> EmptyToken] }
             ELSE {})

ParseFail == [ok |-> FALSE, node |-> PyNone, next |-> 0]

RECURSIVE ParseNode(_, _)
\* the node that starts at position pos, and the position after it
ParseNode(tok, pos) ==
    LET RECURSIVE ParseKids(_, _)
        ParseKids(p, acc) ==
            IF p > Len(tok) THEN ParseFail
            ELSE IF tok[p].s = "}"
            THEN [ok |-> TRUE, node |-> acc, next |-> p + 1]
            ELSE IF tok[p].s = "pair"
            THEN ParseKids(p + 1, Append(acc, Leaf(tok[p].key, tok[p].value)))
            ELSE IF tok[p].s = "{"
            THEN LET sub == ParseNode(tok, p)
                 IN IF sub.ok THEN ParseKids(sub.next, Append(acc, sub.node))
                    ELSE ParseFail
            ELSE ParseFail
    IN IF pos > Len(tok) \/ tok[pos].s # "{" THEN ParseFail
       ELSE IF tok[pos].connector \notin {"AND", "OR"} THEN ParseFail
       ELSE LET kids == ParseKids(pos + 1, <<>>)
            IN IF ~kids.ok THEN ParseFail
               ELSE [ok |-> TRUE,
                     node |-> [kind |-> "Q", connector |-> tok[pos].connector,
                               negated |-> tok[pos].negated, children |-> kids.node],
                     next |-> kids.next]

\* QSerializer.loads: the tree of a token, or the corrupt-filter error.
\* An empty token is an empty tree.
loads(tok) ==
    IF tok = EmptyToken THEN [ok |-> TRUE, err |-> "", node |-> QEmpty]
    ELSE LET r == ParseNode(tok, 1)
         IN IF r.ok /\ r.next = Len(tok) + 1
            THEN [ok |-> TRUE, err |-> "", node |-> r.node]
            ELSE [ok |-> FALSE, err |-> "CorruptEncodingError", node |-> PyNone]

\* the marker row between two groups
OrRow == Row(OR_FIELD, "iexact", VNone, FALSE, FALSE)

RECURSIVE get_field_values_list(_)
\* QSerializer.get_field_values_list: the rows of a decoded tree, one per
\* comparison, with a marker row between the children of an OR node
get_field_values_list(d) ==
    LET n == Len(d.children)
        RowsOf(child) ==
            IF child.kind = "leaf"
            THEN <<Row(child.key, "iexact", child.value, d.negated, FALSE)>>
            ELSE get_field_values_list(child)
        RECURSIVE From(_)
        From(i) ==
            IF i > n THEN <<>>
            ELSE RowsOf(d.children[i])
                 \o (IF d.connector = "OR" /\ i < n THEN <<OrRow>> ELSE <<>>)
                 \o From(i + 1)
    IN From(1)

----------------------------------------------------------------------------
(* AdvancedFilter *)

\* the query property: None for an empty token, else the decoded tree; an
\* error of loads propagates
QueryGetter(b64) ==
    IF b64 = EmptyToken THEN [ok |-> TRUE, err |-> "", value |-> PyNone]
    ELSE LET r == loads(b64)
         IN [ok |-> r.ok, err |-> r.err, value |-> r.node]

\* the query setter: the outcomes of the assignment, each the new b64_query
\* and the error raised, if any.  An error of dumps propagates before the
\* assignment.
QuerySetter(old, value) ==
    IF value.kind # "Q"
    THEN { [b64 |-> old, err |-> "Exception"] }
    ELSE { IF d.ok THEN [b64 |-> d.token, err |-> ""]
                   ELSE [b64 |-> old, err |-> d.err] : d \in dumps(value) }

\* AdvancedFilter.list_fields
list_fields(b64) ==
    IF b64 = EmptyToken THEN [ok |-> TRUE, err |-> "", rows |-> <<>>]
    ELSE LET d == loads(b64)
         IN IF d.ok THEN [ok |-> TRUE, err |-> "", rows |-> get_field_values_list(d.node)]
            ELSE [ok |-> FALSE, err |-> d.err, rows |-> <<>>]

\* the name of the filtered model, as AdvancedFilter.model stores it
ModelName == Str("app.Ticket")

\* the models get_model finds, each with its fields; a field maps to the
\* model it relates to, or to "" when it is no relation
Schema ==
    [Ticket |-> [status |-> "", author |-> "Author"],
     Author |-> [name |-> ""]]

\* get_model(*self.model.split('.')): None has no split, an unknown name
\* is a LookupError
get_model(m) ==
    IF m = VNone THEN [ok |-> FALSE, err |-> "AttributeError", model |-> ""]
    ELSE IF m = ModelName THEN [ok |-> TRUE, err |-> "", model |-> "Ticket"]
    ELSE [ok |-> FALSE, err |-> "LookupError", model |-> ""]

RECURSIVE FollowPath(_, _, _)
\* the loop of get_fields_from_path: parent is the model the next piece is
\* looked up on ("" when the previous field is no relation), found the
\* name of the last field followed
FollowPath(parent, pieces, found) ==
    IF pieces = <<>> THEN [ok |-> TRUE, err |-> "", field |-> found]
    ELSE IF parent = "" THEN [ok |-> FALSE, err |-> "NotRelationField", field |-> found]
    ELSE IF Head(pieces) \notin DOMAIN Schema[parent]
    THEN [ok |-> FALSE, err |-> "FieldDoesNotExist", field |-> found]
    ELSE FollowPath(Schema[parent][Head(pieces)], Tail(pieces), Head(pieces))

\* django.contrib.admin.util.get_fields_from_path(model, path)
get_fields_from_path(mdl, path) == FollowPath(mdl, path, "")

\* AdvancedFilter._parse_query_dict: the row for the form, or the error raised
_parse_query_dict(query_data) ==
    IF query_data.field = OR_FIELD
    THEN [ok |-> TRUE, err |-> "", row |-> [query_data EXCEPT !.operator = "iexact"]]
    ELSE
    LET parts == query_data.field
        last == parts[Len(parts)]
        split == Len(parts) >= 2 /\ last \in OperatorKeys
        d1 == IF split
              THEN [query_data EXCEPT !.field = SubSeq(parts, 1, Len(parts) - 1),
                                      !.operator = last]
              ELSE query_data
        d2 == IF d1.value = VNone THEN [d1 EXCEPT !.operator = "isnull"]
              ELSE IF d1.value = VTrue
              THEN [d1 EXCEPT !.operator = "istrue", !.value = VNone]
              ELSE IF d1.value = VFalse
              THEN [d1 EXCEPT !.operator = "isfalse", !.value = VNone]
              ELSE d1
        mfield == get_fields_from_path("Ticket", d1.field)
    IN IF ~mfield.ok
       THEN [ok |-> FALSE, err |-> mfield.err, row |-> d1]
       ELSE IF d2.value.t = "list" /\ d2.operator = "range"
       \* models.py never imports dt: dt.fromtimestamp raises NameError
       THEN [ok |-> FALSE, err |-> "NameError", row |-> d2]
       ELSE [ok |-> TRUE, err |-> "", row |-> d2]

RECURSIVE ParseRows(_, _)
\* the loop of initialize_form over the rows still to parse; the first
\* error ends it
ParseRows(rows, acc) ==
    IF rows = <<>> THEN [ok |-> TRUE, err |-> "", initials |-> acc]
    ELSE LET r == _parse_query_dict(Head(rows))
         IN IF r.ok THEN ParseRows(Tail(rows), Append(acc, r.row))
            ELSE [ok |-> FALSE, err |-> r.err, initials |-> <<>>]

\* AdvancedFilter.initialize_form: get_model first, then the rows
initialize_form(m, b64) ==
    LET gm == get_model(m)
        lf == list_fields(b64)
    IN IF ~gm.ok THEN [ok |-> FALSE, err |-> gm.err, initials |-> <<>>]
       ELSE IF lf.ok THEN ParseRows(lf.rows, <<>>)
       ELSE [ok |-> FALSE, err |-> lf.err, initials |-> <<>>]

\* an entry of advanced_filter_fields: a field path, or a tuple of a field
\* path and a verbose name
FieldEntry(path) == [field |-> path, tuple |-> FALSE, verbose |-> ""]

NamedEntry(path, verbose) == [field |-> path, tuple |-> TRUE, verbose |-> verbose]

\* the ModelAdmin registered for the model, or none
Registered(fields) == [registered |-> TRUE, advanced_filter_fields |-> fields]

NotRegistered == [registered |-> FALSE, advanced_filter_fields |-> <<>>]

\* lower case verbose names in alphabetical order, the sort key of the choices
LabelOrder == << "author", "name", "state", "status" >>

\* str.capitalize on those names
Capitalize(l) ==
    [author |-> "Author", name |-> "Name", state |-> "State", status |-> "Status"][l]

\* model_fields[field] = verbose_name on the dict kept as a sequence
DictSet(dict, field, verbose) ==
    IF \E i \in DOMAIN dict : dict[i].field = field
    THEN [i \in DOMAIN dict |->
            IF dict[i].field = field THEN [dict[i] EXCEPT !.label = verbose]
            ELSE dict[i]]
    ELSE Append(dict, [field |-> field, label |-> verbose])

RECURSIVE CollectFields(_, _)
\* the loop of get_fields_from_model over advanced_filter_fields.  The
\* except clause calls logger.warn and models.py defines no logger, so an
\* entry that does not resolve raises NameError; NotRelationField is not
\* caught at all.
CollectFields(entries, dict) ==
    IF entries = <<>> THEN [ok |-> TRUE, err |-> "", dict |-> dict]
    ELSE LET e == Head(entries)
             f == get_fields_from_path("Ticket", e.field)
         IN IF e.tuple
            THEN CollectFields(Tail(entries), DictSet(dict, e.field, e.verbose))
            ELSE IF f.ok
            THEN CollectFields(Tail(entries), DictSet(dict, e.field, f.field))
            ELSE IF f.err = "FieldDoesNotExist"
            THEN [ok |-> FALSE, err |-> "NameError", dict |-> dict]
            ELSE [ok |-> FALSE, err |-> f.err, dict |-> dict]

\* model_fields.items(): a dict yields its items in an order that depends on
\* the hashes of the keys (and, with hash randomisation, on the process), so
\* every order of the entries is possible
Items(dict) ==
    LET n == Len(dict)
        perms == { p \in [1..n -> 1..n] : \A i, j \in 1..n : p[i] = p[j] => i = j }
    IN { [i \in 1..n |-> dict[p[i]]] : p \in perms }

RECURSIVE SortedChoices(_, _)
\* sorted(model_fields, key=lambda f: f[1].lower()) with capitalized names:
\* a stable sort, entries of equal key stay in the order of items
SortedChoices(items, k) ==
    IF k > Len(LabelOrder) THEN <<>>
    ELSE LET here == SelectSeq(items, LAMBDA c : c.label = LabelOrder[k])
         IN [i \in DOMAIN here |->
                [field |-> here[i].field, label |-> Capitalize(here[i].label)]]
            \o SortedChoices(items, k + 1)

\* AdvancedFilter.FIELD_CHOICES
FIELD_CHOICES == << [field |-> OR_FIELD, label |-> "OR (mark an or between blocks)"] >>

\* AdvancedFilter.get_fields_from_model: get_model, the registry lookup
\* (its except clause calls the undefined logger: NameError), the loop,
\* the sorted choices.  choices is the set of tuples the call may return,
\* one per order of model_fields.items(); they differ only where two
\* verbose names are equal ignoring case.
get_fields_from_model(m, madmin) ==
    LET gm == get_model(m)
        cf == CollectFields(madmin.advanced_filter_fields, <<>>)
    IN IF ~gm.ok THEN [ok |-> FALSE, err |-> gm.err, choices |-> {}]
       ELSE IF ~madmin.registered
       THEN [ok |-> FALSE, err |-> "NameError", choices |-> {}]
       ELSE IF ~cf.ok THEN [ok |-> FALSE, err |-> cf.err, choices |-> {}]
       ELSE [ok |-> TRUE, err |-> "",
             choices |-> { SortedChoices(items, 1) \o FIELD_CHOICES :
                             items \in Items(cf.dict) }]

----------------------------------------------------------------------------
(* AdvancedListFilters *)

\* the id of the stored AdvancedFilter
StoredId == "1"

\* model_admin.advanced_filter_custom: id -> query
CustomId == "recent"

CustomQuery == QKw(Leaf(<<"status", "iexact">>, Str("open")))

\* the queryset handed in, returned as it came
Unfiltered == [filtered |-> FALSE, q |-> PyNone]

\* queryset.filter(query).distinct()
Filtered(q) == [filtered |-> TRUE, q |-> q]

\* AdvancedListFilters.queryset for the request parameter value
queryset(value, b64) ==
    IF value = "" THEN [ok |-> TRUE, err |-> "", result |-> Unfiltered]
    ELSE IF value = CustomId THEN [ok |-> TRUE, err |-> "", result |-> Filtered(CustomQuery)]
    ELSE IF value # StoredId THEN [ok |-> TRUE, err |-> "", result |-> Unfiltered]
    ELSE LET g == QueryGetter(b64)
         IN IF ~g.ok THEN [ok |-> FALSE, err |-> g.err, result |-> Unfiltered]
            ELSE IF g.value = PyNone
            \* query.__dict__ on None
            THEN [ok |-> FALSE, err |-> "AttributeError", result |-> Unfiltered]
            ELSE [ok |-> TRUE, err |-> "", result |-> Filtered(g.value)]

----------------------------------------------------------------------------
(* Inputs *)

\* rows that exercise the structure of a formset: separators, deleted rows,
\* a negated row on a related field, a field the model does not have
StructRows ==
    { Row(OR_FIELD, "iexact", VNone, FALSE, d) : d \in BOOLEAN }
    \cup { Row(<<"status">>, "iexact", Str("open"), FALSE, d) : d \in BOOLEAN }
    \cup { Row(<<"status">>, "iexact", Str("pending"), FALSE, FALSE),
           Row(<<"author", "name">>, "gt", Str("m"), TRUE, FALSE),
           Row(<<"bogus">>, "iexact", Str("open"), FALSE, FALSE) }

\* one row per operator, kind of value and negate flag
VocabRows ==
    { Row(<<"status">>, op, v, n, FALSE) :
        op \in OperatorKeys, v \in {Str("open"), VNone, VTrue, VFalse, VList},
        n \in BOOLEAN }

\* a row with a value as long as Condition.value allows
LongRow == Row(<<"status">>, "iexact", Str(X255), FALSE, FALSE)

SeqsUpTo(S, n) == UNION { [1..k -> S] : k \in 0..n }

Formsets ==
    SeqsUpTo(StructRows, MaxLen)
    \cup { <<r>> : r \in VocabRows }
    \cup { [i \in 1..k |-> LongRow] : k \in 1..MaxLongRows }

\* the token of a filter saved earlier: status__iexact = "open"
SampleToken == Serialize(CustomQuery)

\* a stored token that is no token at all
CorruptToken == << [s |-> "not-a-valid-token"] >>

\* a stored token cut short
TruncatedToken == SubSeq(SampleToken, 1, Len(SampleToken) - 1)

\* the tree of a filter saved from the change list by save_advanced_filter,
\* whose form compiles the grouping example of the specification:
\* status = "open" OR status = "pending"
GroupedQuery ==
    [kind |-> "Q", connector |-> "OR", negated |-> FALSE,
     children |-> << Leaf(<<"status", "iexact">>, Str("open")),
                     Leaf(<<"status", "iexact">>, Str("pending")) >>]

GroupedToken == Serialize(GroupedQuery)

InitTokens ==
    { EmptyToken, SampleToken, GroupedToken, CorruptToken, TruncatedToken }

AfilterValues == { "", CustomId, StoredId, "9" }

\* the usual installation: the model is found and its ModelAdmin lists two
\* fields
Installed ==
    [model |-> ModelName,
     model_admin |-> Registered(<< FieldEntry(<<"status">>),
                                   FieldEntry(<<"author", "name">>) >>)]

\* other installations: no model on the filter, a model that is gone, no
\* ModelAdmin, a named field, two fields of the same verbose name, a field
\* that does not exist, a path through a field that is no relation
OtherInstallations ==
    { [Installed EXCEPT !.model = VNone],
      [Installed EXCEPT !.model = Str("app.Gone")],
      [Installed EXCEPT !.model_admin = NotRegistered],
      [Installed EXCEPT !.model_admin =
          Registered(<< NamedEntry(<<"status">>, "state"),
                        FieldEntry(<<"author", "name">>) >>)],
      [Installed EXCEPT !.model_admin =
          Registered(<< FieldEntry(<<"author", "name">>),
                        NamedEntry(<<"status">>, "name") >>)],
      [Installed EXCEPT !.model_admin =
          Registered(<< FieldEntry(<<"status">>), FieldEntry(<<"bogus">>) >>)],
      [Installed EXCEPT !.model_admin =
          Registered(<< FieldEntry(<<"status", "name">>) >>)] }

----------------------------------------------------------------------------
(* The state machine: one stored AdvancedFilter and one request on it *)

NotRun == [ok |-> TRUE, err |-> "", query |-> PyNone, ORed |-> <<>>]

Init ==
    /\ phase = "idle"
    /\ \E inst \in {Installed} \cup OtherInstallations :
          /\ model = inst.model
          /\ model_admin = inst.model_admin
          /\ b64_query \in IF inst = Installed THEN InitTokens
                            ELSE {EmptyToken, SampleToken}
    /\ filter_fields = <<>>
    /\ conditions = <<>>
    /\ gq = NotRun
    /\ set_err = ""
    /\ initials = <<>>
    /\ form_err = ""
    /\ afilter = ""
    /\ listing = Unfiltered
    /\ list_err = ""

\* AdvancedFilterAdmin.save_formset:
\*   form.instance.query = self.generate_query(conditions)
SaveFormset ==
    /\ phase = "idle"
    /\ \E conds \in Formsets :
        LET g == generate_query(conds)
            sts == IF g.ok THEN QuerySetter(b64_query, g.query)
                   ELSE { [b64 |-> b64_query, err |-> ""] }
        IN /\ conditions' = conds
           /\ gq' = g
           /\ \E st \in sts :
                 /\ b64_query' = st.b64
                 /\ set_err' = st.err
    /\ phase' = "saved"
    /\ UNCHANGED <<model, model_admin, filter_fields, initials, form_err,
                   afilter, listing, list_err>>

\* AdvancedFilterAdmin._create_formsets:
\*   formset_params['filter_fields'] = obj.get_fields_from_model()
\*   formset_params['initial'] = obj.initialize_form()
CreateFormsets ==
    /\ phase \in {"idle", "saved"}
    /\ LET ff == get_fields_from_model(model, model_admin)
           r == initialize_form(model, b64_query)
       IN IF ~ff.ok
          THEN /\ filter_fields' = <<>>
               /\ initials' = <<>>
               /\ form_err' = ff.err
          ELSE /\ filter_fields' \in ff.choices
               /\ initials' = r.initials
               /\ form_err' = r.err
    /\ phase' = "populated"
    /\ UNCHANGED <<b64_query, conditions, gq, set_err, model, model_admin,
                   afilter, listing, list_err>>

\* AdvancedListFilters.queryset on the change list
Queryset ==
    /\ phase \in {"idle", "saved"}
    /\ \E value \in AfilterValues :
        LET r == queryset(value, b64_query)
        IN /\ afilter' = value
           /\ listing' = r.result
           /\ list_err' = r.err
    /\ phase' = "listed"
    /\ UNCHANGED <<b64_query, conditions, gq, set_err, model, model_admin,
                   filter_fields, initials, form_err>>

Next == SaveFormset \/ CreateFormsets \/ Queryset

Spec == Init /\ [][Next]_vars

----------------------------------------------------------------------------
(* Vocabulary of the properties *)

\* save_formset has run in this request
Compiled == conditions # <<>> \/ gq # NotRun

\* the save stored the compiled tree
Stored == Compiled /\ gq.ok /\ set_err = ""

\* the filter's model is found and its ModelAdmin's fields all resolve
Healthy == get_fields_from_model(model, model_admin).ok

IsOr(r) == r.field = OR_FIELD

RemoveDeleted(R) == SelectSeq(R, LAMBDA r : ~r.delete)

RECURSIVE DropRepeatedOr(_)
\* R without any separator that directly follows a separator
DropRepeatedOr(R) ==
    IF Len(R) < 2 THEN R
    ELSE IF IsOr(R[1]) /\ IsOr(R[2]) THEN DropRepeatedOr(Tail(R))
    ELSE <<Head(R)>> \o DropRepeatedOr(Tail(R))

RECURSIVE DropLeadingOr(_)
DropLeadingOr(R) ==
    IF R # <<>> /\ IsOr(Head(R)) THEN DropLeadingOr(Tail(R)) ELSE R

RECURSIVE DropTrailingOr(_)
DropTrailingOr(R) ==
    IF R # <<>> /\ IsOr(R[Len(R)])
    THEN DropTrailingOr(SubSeq(R, 1, Len(R) - 1)) ELSE R

\* R without leading, trailing and repeated separators
StripRedundantOr(R) == DropTrailingOr(DropLeadingOr(DropRepeatedOr(R)))

RECURSIVE GroupsFrom(_, _, _)
\* the non-empty groups of the rows that are not deleted, split at the
\* separators: section 4.1 of the specification
GroupsFrom(R, current, done) ==
    IF R = <<>> THEN (IF current # <<>> THEN Append(done, current) ELSE done)
    ELSE IF Head(R).delete THEN GroupsFrom(Tail(R), current, done)
    ELSE IF IsOr(Head(R))
    THEN GroupsFrom(Tail(R), <<>>, IF current # <<>> THEN Append(done, current) ELSE done)
    ELSE GroupsFrom(Tail(R), Append(current, Head(R)), done)

Groups(R) == GroupsFrom(R, <<>>, <<>>)

\* the comparison a row stands for
AtomOf(r) == [leaf |-> build_query_dict(r), negated |-> r.negate]

GroupAtoms(G) == [i \in DOMAIN G |-> AtomOf(G[i])]

RECURSIVE AtomsUnder(_, _)
\* the comparisons below a child of a tree, in order, each with the parity
\* of the negations above it
AtomsUnder(x, neg) ==
    IF x.kind = "leaf" THEN << [leaf |-> x, negated |-> neg] >>
    ELSE LET RECURSIVE Kids(_)
             Kids(cs) ==
                 IF cs = <<>> THEN <<>>
                 ELSE AtomsUnder(Head(cs), neg # x.negated) \o Kids(Tail(cs))
         IN Kids(x.children)

Atoms(q) == AtomsUnder(q, FALSE)

\* rows the round-trip law speaks of: on a field of the model, not deleted,
\* a text value, or no value for the operators that take none
FlagOperators == {"isnull", "istrue", "isfalse"}

ValidRow(r) ==
    /\ ~r.delete
    /\ IsOr(r) \/ get_fields_from_path("Ticket", r.field).ok
    /\ IsOr(r) \/ (IF r.operator \in FlagOperators THEN r.value = VNone
                    ELSE r.value.t = "str")

ValidSeq(R) ==
    /\ \A i \in DOMAIN R : ValidRow(R[i])
    /\ StripRedundantOr(R) = R

\* what the round-trip law compares of a row
Core(r) ==
    [field |-> r.field, operator |-> r.operator, negate |-> r.negate,
     value |-> IF r.operator \in FlagOperators THEN VNone ELSE r.value]

----------------------------------------------------------------------------
(* Properties *)

\* C1: every group generate_query collects to be OR-ed into the result
\* holds at least one comparison, whatever the row sequence.
C1_NoEmptyGroup ==
    Compiled => \A i \in DOMAIN gq.ORed : QBool(gq.ORed[i])

\* C2: generate_query returns a tree and no error; one group gives the AND
\* of its comparisons in row order, two or more groups give the OR of the
\* groups in order, each the AND of its comparisons.
C2_ResultShape ==
    LET G == Groups(conditions)
    IN (Compiled /\ Len(G) >= 1) =>
           /\ gq.ok
           /\ Len(G) = 1 =>
                 /\ gq.query.connector = "AND"
                 /\ Atoms(gq.query) = GroupAtoms(G[1])
           /\ Len(G) >= 2 =>
                 /\ gq.query.connector = "OR"
                 /\ Len(gq.query.children) = Len(G)
                 /\ \A i \in DOMAIN G :
                       AtomsUnder(gq.query.children[i], FALSE) = GroupAtoms(G[i])

\* C3: leading, trailing and repeated separators change nothing, and rows
\* that are all separators compile without error to the empty tree.
C3_RedundantOrNoOp ==
    Compiled =>
        LET e == generate_query(StripRedundantOr(conditions))
        IN /\ gq.ok = e.ok
           /\ gq.query = e.query
           /\ (\A i \in DOMAIN conditions : IsOr(conditions[i]))
                 => gq.ok /\ gq.query = QEmpty

\* C4: compiling valid rows, storing the tree and re-flattening it with
\* initialize_form gives back the same rows: same field, operator, value
\* and negation, in the same order.
C4_RoundTrip ==
    (phase = "populated" /\ Healthy /\ Stored /\ ValidSeq(conditions)) =>
        /\ form_err = ""
        /\ Len(initials) = Len(conditions)
        /\ \A i \in DOMAIN conditions : Core(initials[i]) = Core(conditions[i])

\* C5: deleted rows take no part in compilation: the outcome is that of the
\* rows without the deleted ones, and the tree holds one comparison per
\* row that is neither deleted nor a separator.
C5_DeletedRowsSkipped ==
    Compiled =>
        /\ gq = generate_query(RemoveDeleted(conditions))
        /\ gq.ok =>
              Atoms(gq.query)
                = GroupAtoms(SelectSeq(conditions, LAMBDA r : ~r.delete /\ ~IsOr(r)))

\* a deleted comparison and a deleted separator were skipped and a tree
\* was compiled from the rest
C5_Witness ==
    /\ phase = "saved"
    /\ gq.ok /\ QBool(gq.query)
    /\ \E i \in DOMAIN conditions : conditions[i].delete /\ IsOr(conditions[i])
    /\ \E i \in DOMAIN conditions : conditions[i].delete /\ ~IsOr(conditions[i])

\* C6: whatever its operator, a row whose value is None compiles to an
\* is-null comparison, and a row whose value is True or False to the
\* is-true or is-false comparison.
C6_NullBoolNormalized ==
    (Compiled /\ gq.ok) =>
        LET rows == SelectSeq(conditions, LAMBDA r : ~r.delete /\ ~IsOr(r))
            atoms == Atoms(gq.query)
        IN \A i \in DOMAIN rows :
             /\ rows[i].value = VNone =>
                   atoms[i].leaf = Leaf(Append(rows[i].field, "isnull"), VTrue)
             /\ rows[i].value = VTrue => atoms[i].leaf = Leaf(rows[i].field, VTrue)
             /\ rows[i].value = VFalse => atoms[i].leaf = Leaf(rows[i].field, VFalse)

\* C8: listing with the id of a stored filter whose token cannot be
\* decoded returns the incoming queryset unfiltered and raises nothing.
C8_CorruptDegrades ==
    (phase = "listed" /\ afilter = StoredId /\ ~loads(b64_query).ok) =>
        /\ list_err = ""
        /\ listing = Unfiltered

\* C9: an empty stored token decodes without error, gives no rows, and
\* listing with that filter matches everything and raises nothing.
C9_EmptyTokenUsable ==
    b64_query = EmptyToken =>
        /\ QueryGetter(b64_query).ok
        /\ list_fields(b64_query) = [ok |-> TRUE, err |-> "", rows |-> <<>>]
        /\ (phase = "listed" /\ afilter = StoredId) =>
              /\ list_err = ""
              /\ listing \in {Unfiltered, Filtered(QEmpty)}

\* C10: when initialize_form meets rows whose field does not resolve, it
\* skips them and still returns every other row, in order.
C10_UnresolvedRowSkipped ==
    LET lf == list_fields(b64_query)
        parsed == [i \in DOMAIN lf.rows |-> _parse_query_dict(lf.rows[i])]
        kept == SelectSeq(parsed, LAMBDA r : r.ok)
    IN (/\ phase = "populated"
        /\ Healthy
        /\ lf.ok
        /\ \A i \in DOMAIN parsed :
              parsed[i].ok \/ parsed[i].err \in {"FieldDoesNotExist", "NotRelationField"})
       => /\ form_err = ""
          /\ initials = [i \in DOMAIN kept |-> kept[i].row]

====
